---- MODULE Spec2Model ----
(***************************************************************************)
(* TechCoach document store: ingestion, classification, multi-collection  *)
(* search, context building, statistics and collection reset              *)
(* (app/agentic_core/rag and app/gateway/routers/documents.py).           *)
(*                                                                         *)
(* Texts are named by short ASCII identifiers; Chinese literals of the    *)
(* source are written in pinyin ("jianli" for the resume keyword).        *)
(***************************************************************************)
EXTENDS Integers, Sequences, FiniteSets, TLC

VARIABLES
    client,             \* ChromaDBClient.client is not None
    collections_cache,  \* ChromaDBClient._collections (names with a cached handle)
    chromaExists,       \* collections that exist in the vector database
    chroma,             \* vector database: collection name -> stored documents
    indexes,            \* DocumentStore.indexes (keys)
    retrievers,         \* DocumentStore.retrievers (keys, in dict insertion order)
    files,              \* app_data/documents: file name -> content
    tempFiles,          \* app_data/temp/documents: names of the files present
    db,                 \* documents table of the metadata store
    nextId,             \* number of document ids / timestamps handed out
    out,                \* what the last operation returned (and what it saw)
    pc,                 \* position of each concurrent ingest call
    loc,                \* locals of each concurrent ingest call
    creations,          \* how often an index was created, per collection
    agents,             \* AgentManager.agents: agent key -> the agent (by its role)
    document_store      \* the router's global document_store: "None" or "store"

vars == <<client, collections_cache, chromaExists, chroma, indexes, retrievers,
          files, tempFiles, db, nextId, out, pc, loc, creations, agents, document_store>>

----------------------------------------------------------------------------
(* Bounds *)

MaxDocs == 2
MaxTopK == 1
NumThreads == 2

----------------------------------------------------------------------------
(* config.py *)

SIMILARITY_TOP_K_RESUMES == 10
SIMILARITY_TOP_K_PROJECTS == 10
SIMILARITY_TOP_K_JOB_POSTINGS == 10
SIMILARITY_TOP_K_INTERVIEWS == 12
SIMILARITY_TOP_K_QNA_BANK == 15
SIMILARITY_TOP_K_CODE_ANALYSIS == 5
SIMILARITY_TOP_K_INDUSTRY_TRENDS == 8

COLLECTION_RESUMES == "resumes"
COLLECTION_PROJECTS_EXPERIENCE == "projects_experience"
COLLECTION_JOB_POSTINGS == "job_postings"
COLLECTION_INTERVIEWS == "interviews"
COLLECTION_INTERVIEW_QNA_BANK == "interview_qna_bank"
COLLECTION_CODE_ANALYSIS == "code_analysis"
COLLECTION_INDUSTRY_TRENDS == "industry_trends"

\* The keys of the collection registry, in the order the dict literal lists them.
KeyOrder ==
    << COLLECTION_RESUMES, COLLECTION_PROJECTS_EXPERIENCE, COLLECTION_JOB_POSTINGS,
       COLLECTION_INTERVIEWS, COLLECTION_INTERVIEW_QNA_BANK, COLLECTION_CODE_ANALYSIS,
       COLLECTION_INDUSTRY_TRENDS >>

CollectionKeys == { KeyOrder[i] : i \in 1..Len(KeyOrder) }

\* A key no registry entry has: what a language model may invent.
UnknownKey == "misc_documents"

RegistryEntries ==
    [ k \in CollectionKeys |->
        [ name |-> k,
          similarity_top_k |->
            CASE k = COLLECTION_RESUMES -> SIMILARITY_TOP_K_RESUMES
              [] k = COLLECTION_PROJECTS_EXPERIENCE -> SIMILARITY_TOP_K_PROJECTS
              [] k = COLLECTION_JOB_POSTINGS -> SIMILARITY_TOP_K_JOB_POSTINGS
              [] k = COLLECTION_INTERVIEWS -> SIMILARITY_TOP_K_INTERVIEWS
              [] k = COLLECTION_INTERVIEW_QNA_BANK -> SIMILARITY_TOP_K_QNA_BANK
              [] k = COLLECTION_CODE_ANALYSIS -> SIMILARITY_TOP_K_CODE_ANALYSIS
              [] OTHER -> SIMILARITY_TOP_K_INDUSTRY_TRENDS ] ]

COLLECTION_CONFIGS == RegistryEntries

\* A lookup that answers for every key, as a registry with a default entry would.
HasConfig_AnyKey(collection_type) == TRUE

\* `collection_type in COLLECTION_CONFIGS`; get_collection_config returns None for a
\* key without an entry.
HasConfig(collection_type) == collection_type \in DOMAIN COLLECTION_CONFIGS

get_collection_config(collection_type) == COLLECTION_CONFIGS[collection_type]

get_retrieval_config(collection_type) ==
    [ similarity_top_k |-> get_collection_config(collection_type).similarity_top_k ]

----------------------------------------------------------------------------
(* Strings *)

Contains(s, k) ==
    \E i \in 1..(Len(s) - Len(k) + 1) : SubSeq(s, i, i + Len(k) - 1) = k

EndsWith(s, suffix) ==
    Len(s) >= Len(suffix) /\ SubSeq(s, Len(s) - Len(suffix) + 1, Len(s)) = suffix

Upper == "ABCDEFGHIJKLMNOPQRSTUVWXYZ"
LowerLetters == "abcdefghijklmnopqrstuvwxyz"

LowerChar(c) ==
    IF \E i \in 1..Len(Upper) : SubSeq(Upper, i, i) = c
    THEN LET i == CHOOSE j \in 1..Len(Upper) : SubSeq(Upper, j, j) = c
         IN  SubSeq(LowerLetters, i, i)
    ELSE c

\* str.lower() that leaves every letter as it is.
Lower_CaseKept(s) == s

RECURSIVE Lower(_)
Lower(s) ==
    IF Len(s) = 0 THEN ""
    ELSE LowerChar(SubSeq(s, 1, 1)) \o Lower(SubSeq(s, 2, Len(s)))

Digits == "0123456789"
DigitStr(n) == SubSeq(Digits, (n % 10) + 1, (n % 10) + 1)

Min(a, b) == IF a <= b THEN a ELSE b

----------------------------------------------------------------------------
(* Document texts and contents *)

\* The texts a document can hold; "" is the empty document.
Texts == {"short", "long"}

\* Number of nodes the splitter makes of a text, and the length of each node.
TextChunks(src) == CASE src = "short" -> 1 [] src = "long" -> 6 [] OTHER -> 0
TextChunkChars(src) == CASE src = "short" -> 50 [] src = "long" -> 200 [] OTHER -> 0

\* The literal the fallback returns as cleaned_content (9 characters in the source).
PlaceholderChars == 9
PlaceholderContent == [form |-> "placeholder", src |-> "yuanshi neirong (wei qingli)"]

\* What the language model returns as cleaned_content for a text: the text, normalised.
Cleaned(src) == [form |-> "cleaned", src |-> src]

NumChunks(content) ==
    IF content.form = "placeholder" THEN 1 ELSE TextChunks(content.src)

ChunkChars(content) ==
    IF content.form = "placeholder" THEN PlaceholderChars ELSE TextChunkChars(content.src)

\* A stored text overlaps T when it was made from T.
Overlaps(content, T) == content.form # "placeholder" /\ content.src = T

----------------------------------------------------------------------------
(* document_processor.py: metadata *)

TruncateDefaultLength == 30
\* config.py sets this cap; no caller of _truncate_metadata passes it.
MAX_METADATA_FIELD_LENGTH == 50
TruncateListItems == 5
TruncateItemLength == 20

StrVal(s) == [t |-> "str", s |-> s, l |-> << >>]
ListVal(l) == [t |-> "list", s |-> "", l |-> l]
OtherVal == [t |-> "other", s |-> "", l |-> << >>]

\* The loop over the items without `item[:20]`.
TruncateItem_Whole(item) == item

TruncateItem(item) ==
    IF item.t = "str"
    THEN (IF Len(item.s) > TruncateItemLength
          THEN StrVal(SubSeq(item.s, 1, TruncateItemLength)) ELSE item)
    ELSE item

_truncate_metadata(metadata, max_field_length) ==
    [ key \in DOMAIN metadata |->
        LET value == metadata[key] IN
        IF value.t = "str"
        THEN (IF Len(value.s) > max_field_length
              THEN StrVal(SubSeq(value.s, 1, max_field_length)) ELSE value)
        ELSE IF value.t = "list"
        THEN ListVal([ i \in 1..Min(Len(value.l), TruncateListItems) |->
                         TruncateItem(value.l[i]) ])
        ELSE value ]

EmptyMetadata == [ key \in {} |-> OtherVal ]

\* metadata.get("source", "unknown") of a stored node
SourceOf(metadata) ==
    IF "source" \in DOMAIN metadata /\ metadata["source"].t = "str"
    THEN metadata["source"].s ELSE "unknown"

----------------------------------------------------------------------------
(* llm_client.py and document_processor.py: classification *)

RequiredKeys ==
    {"renamed_filename", "description", "abstract", "cleaned_content", "collection_type"}

\* A JSON object of the language model: the keys it holds and their values.
\* ct_hashable is FALSE when collection_type is a list or an object;
\* meta_is_dict is FALSE when "metadata" is present and is not an object.
LLMObject(keys, ct, hashable, renamed, metaIsDict, metadata) ==
    [ keys |-> keys, collection_type |-> ct, ct_hashable |-> hashable,
      renamed_filename |-> renamed, meta_is_dict |-> metaIsDict, metadata |-> metadata ]

NoObject == LLMObject({}, "", TRUE, "", TRUE, EmptyMetadata)

LongSource == "llm_generated_source_label_of_more_than_thirty_chars"

LLMMetadata ==
    [ key \in {"source", "keywords"} |->
        IF key = "source" THEN StrVal(LongSource)
        ELSE ListVal(<< StrVal("python"), StrVal("docker") >>) ]

RenamedNames == {"renamed_doc", "report.txt"}

\* The collections the language model is seen to choose.
ModelChoices == {COLLECTION_CODE_ANALYSIS}

\* What client.invoke can do: raise, or answer with a text that holds no brace,
\* braces without JSON between them, a JSON object, or content that is no string.
Behaviour(kind, tag, obj) == [kind |-> kind, tag |-> tag, obj |-> obj]

LLMBehaviours ==
    { Behaviour("raise", "raise", NoObject),
      Behaviour("prose", "prose", NoObject),
      Behaviour("garbled", "garbled", NoObject),
      Behaviour("nonstring", "nonstring", NoObject),
      Behaviour("json", "missing_field",
          LLMObject(RequiredKeys \ {"cleaned_content"}, COLLECTION_RESUMES, TRUE,
                    "renamed_doc", TRUE, EmptyMetadata)),
      Behaviour("json", "unknown_key",
          LLMObject(RequiredKeys, UnknownKey, TRUE, "renamed_doc", TRUE, EmptyMetadata)),
      Behaviour("json", "unhashable_key",
          LLMObject(RequiredKeys, "", FALSE, "renamed_doc", TRUE, EmptyMetadata)),
      Behaviour("json", "bad_metadata",
          LLMObject(RequiredKeys \cup {"metadata"}, COLLECTION_RESUMES, TRUE,
                    "renamed_doc", FALSE, EmptyMetadata)) }
    \cup { Behaviour("json", "valid",
               LLMObject(RequiredKeys \cup {"metadata"}, COLLECTION_RESUMES, TRUE, rn,
                         TRUE, LLMMetadata)) : rn \in RenamedNames }
    \cup { Behaviour("json", "valid",
               LLMObject(RequiredKeys, ct, TRUE, "renamed_doc", TRUE, EmptyMetadata)) :
               ct \in ModelChoices }

\* LLMClientManager.chat: every exception becomes the string "Error: ...".
chat(llm) ==
    IF llm.kind = "raise" THEN Behaviour("prose", "error_string", NoObject) ELSE llm

\* response_raw[response_raw.find('{'):response_raw.rfind('}')+1] and json.loads
ParseResponse(response_raw) ==
    CASE response_raw.kind = "nonstring" -> [exc |-> "AttributeError", obj |-> NoObject]
      [] response_raw.kind = "json" -> [exc |-> "", obj |-> response_raw.obj]
      [] OTHER -> [exc |-> "JSONDecodeError", obj |-> NoObject]

\* "valid", "invalid", or the exception `x not in dict` raises for an unhashable x
_validate_preprocessing_result(result) ==
    IF ~(RequiredKeys \subseteq result.keys) THEN "invalid"
    ELSE IF ~result.ct_hashable THEN "TypeError"
    ELSE IF ~HasConfig(result.collection_type) THEN "invalid"
    ELSE "valid"

\* via tells who made the result: the language model's JSON object or the fallback.
Preprocessing(renamed, content, ct, metadata, confidence, via) ==
    [ raised |-> FALSE, renamed_filename |-> renamed, cleaned_content |-> content,
      collection_type |-> ct, metadata |-> metadata, confidence |-> confidence,
      via |-> via ]

HasAny(s, keywords) == \E k \in keywords : Contains(s, k)

\* Confidence in tenths: 3 is 0.3. The model's object carries no confidence of its own
\* here (the key is optional and nothing reads it): NoConfidence.
FallbackConfidence == 3
NoConfidence == 0 - 1

_get_fallback_preprocessing(filename, now) ==
    LET filename_lower == IF filename # "" THEN Lower(filename) ELSE ""
        collection_type ==
            IF HasAny(filename_lower, {"resume", "cv", "jianli"})
            THEN COLLECTION_RESUMES
            ELSE IF HasAny(filename_lower, {"project", "experience", "xiangmu", "jingyan"})
            THEN COLLECTION_PROJECTS_EXPERIENCE
            ELSE IF HasAny(filename_lower, {"job", "jd", "posting", "zhaopin", "zhiwei"})
            THEN COLLECTION_JOB_POSTINGS
            ELSE COLLECTION_PROJECTS_EXPERIENCE
        fallback_filename ==
            IF filename # "" /\ filename # "weizhi" THEN filename
            ELSE "wendang_" \o DigitStr(now)
    IN  Preprocessing(fallback_filename, PlaceholderContent, collection_type,
            _truncate_metadata(
                [ key \in {"source", "processing_method"} |->
                    IF key = "source" THEN StrVal("fallback_processing")
                    ELSE StrVal("heuristic") ],
                TruncateDefaultLength),
            FallbackConfidence, "fallback")

\* The file names an ingest can meet: the paths callers pass and the temporary files.
PathNames == {"zhangsan_jianli.txt", "report.txt"}
TempName(n) == "temp_doc_" \o DigitStr(n) \o ".txt"
FileNameSpace == PathNames \cup { TempName(n) : n \in 1..(MaxDocs + 1) }

\* _get_fallback_preprocessing, evaluated once for each of these names.
FallbackByName == [ fn \in FileNameSpace |-> _get_fallback_preprocessing(fn, 0) ]

Fallback(filename, now) ==
    IF filename \in FileNameSpace THEN FallbackByName[filename]
    ELSE _get_fallback_preprocessing(filename, now)

Raised ==
    [ Preprocessing("", PlaceholderContent, "", EmptyMetadata, NoConfidence, "none")
        EXCEPT !.raised = TRUE ]

\* process_document without its outer `except Exception`.
process_document_NoOuterHandler(document_content, filename, llm, now) ==
    LET parsed == ParseResponse(chat(llm))
        valid == _validate_preprocessing_result(parsed.obj)
    IN  IF parsed.exc = "JSONDecodeError" THEN Fallback(filename, now)
        ELSE IF parsed.exc # "" THEN Raised
        ELSE IF valid = "TypeError" THEN Raised
        ELSE IF valid = "invalid" THEN Fallback(filename, now)
        ELSE IF "metadata" \in parsed.obj.keys /\ ~parsed.obj.meta_is_dict THEN Raised
        ELSE Preprocessing(parsed.obj.renamed_filename, Cleaned(document_content),
                 parsed.obj.collection_type,
                 IF "metadata" \in parsed.obj.keys
                 THEN _truncate_metadata(parsed.obj.metadata, TruncateDefaultLength)
                 ELSE EmptyMetadata,
                 NoConfidence, "model")

process_document(document_content, filename, llm, now) ==
    LET parsed == ParseResponse(chat(llm))
        valid == _validate_preprocessing_result(parsed.obj)
    IN  IF parsed.exc = "JSONDecodeError" THEN Fallback(filename, now)
        ELSE IF parsed.exc # "" THEN Fallback(filename, now)
        ELSE IF valid = "TypeError" THEN Fallback(filename, now)
        ELSE IF valid = "invalid" THEN Fallback(filename, now)
        ELSE IF "metadata" \in parsed.obj.keys /\ ~parsed.obj.meta_is_dict
        THEN Fallback(filename, now)
        ELSE Preprocessing(parsed.obj.renamed_filename, Cleaned(document_content),
                 parsed.obj.collection_type,
                 IF "metadata" \in parsed.obj.keys
                 THEN _truncate_metadata(parsed.obj.metadata, TruncateDefaultLength)
                 ELSE EmptyMetadata,
                 NoConfidence, "model")

----------------------------------------------------------------------------
(* State helpers *)

NoneStr == "<None>"

InSeq(x, seq) == \E i \in 1..Len(seq) : seq[i] = x
SeqSet(seq) == { seq[i] : i \in 1..Len(seq) }
Remove(seq, x) == SelectSeq(seq, LAMBDA y : y # x)
\* d[key] = value on a dict: a new key goes last, an old key keeps its place
DictPut(seq, x) == IF InSeq(x, seq) THEN seq ELSE Append(seq, x)

RECURSIVE SumChunks(_)
SumChunks(docs) ==
    IF Len(docs) = 0 THEN 0 ELSE NumChunks(docs[1].content) + SumChunks(Tail(docs))

\* collection.count(): the number of stored nodes
Count(k) == SumChunks(chroma[k])

Stored(id, content, file_name, source) ==
    [ id |-> id, content |-> content, file_name |-> file_name, source |-> source ]

NoResults == SubSeq(<< [rank |-> 0, content |-> PlaceholderContent, chars |-> 0, score |-> 0,
                        source |-> "", file_name |-> "", collection_type |-> "",
                        collection_rank |-> 0, overall_rank |-> 0] >>, 1, 0)

NoParts == SubSeq(<< [collection_type |-> "", source |-> "", score |-> 0, chars |-> 0] >>, 1, 0)

ZeroCounts == [ k \in CollectionKeys |-> 0 ]

\* The threads that call ingest_single_document at the same time, and what a call
\* holds in its local variables between two steps.
Threads == 1..NumThreads

\* AgentManager.agents of a manager without agents
EmptyAgents == [ k \in {} |-> "" ]

NoLoc ==
    [ collection_type |-> "", entry |-> Stored(0, PlaceholderContent, "", ""),
      had_index |-> FALSE, temp |-> "" ]

NoOut ==
    [ op |-> "none", ok |-> FALSE, collection_type |-> "", text |-> "", content |-> PlaceholderContent,
      final_filename |-> "", confidence |-> 0, stage |-> "", llm |-> "", file_size |-> 0,
      query |-> "", colls |-> << >>, colls_given |-> FALSE, top_k |-> 0, results |-> NoResults,
      raised_in |-> "", max_tokens |-> 0, parts |-> NoParts,
      counts |-> ZeroCounts, errors |-> {}, before |-> ZeroCounts, key |-> "",
      after |-> "none", prev_ok |-> FALSE, db_failed |-> FALSE, file_kept |-> FALSE,
      llm_tag |-> "", injected |-> "", given |-> "", had_index |-> FALSE, chunk_ids |-> 0,
      connected |-> FALSE, targets |-> << >>, filename |-> "",
      metadata |-> EmptyMetadata, truncated |-> EmptyMetadata, max_field_length |-> 0,
      role |-> "", agent |-> "", listed |-> {} ]

----------------------------------------------------------------------------
(* chroma_client.py *)

\* get_or_create_collection: "RuntimeError" without a client, the cached handle when
\* there is one, else the collection is fetched or created (which fails when the
\* server cannot be reached).
get_or_create_collection(name, serverFails) ==
    IF ~client THEN [exc |-> TRUE, exists |-> chromaExists, cache |-> collections_cache]
    ELSE IF name \in collections_cache
    THEN [exc |-> FALSE, exists |-> chromaExists, cache |-> collections_cache]
    ELSE IF serverFails
    THEN [exc |-> TRUE, exists |-> chromaExists, cache |-> collections_cache]
    ELSE [exc |-> FALSE, exists |-> chromaExists \cup {name},
          cache |-> collections_cache \cup {name}]

\* delete_collection without the `except`, and dropping every collection's data.
delete_collection_DropsAll(name, serverFails) ==
    IF ~client THEN [exc |-> TRUE, ok |-> FALSE, exists |-> chromaExists,
                     cache |-> collections_cache, data |-> chroma]
    ELSE IF serverFails \/ name \notin chromaExists
    THEN [exc |-> FALSE, ok |-> FALSE, exists |-> chromaExists,
          cache |-> collections_cache, data |-> chroma]
    ELSE [exc |-> FALSE, ok |-> TRUE, exists |-> chromaExists \ {name},
          cache |-> collections_cache \ {name},
          data |-> [ k \in DOMAIN chroma |-> << >> ]]

\* delete_collection: "RuntimeError" without a client; False when the server refuses
\* (unreachable, or no such collection); else the collection and its handle are gone.
delete_collection(name, serverFails) ==
    IF ~client THEN [exc |-> TRUE, ok |-> FALSE, exists |-> chromaExists,
                     cache |-> collections_cache, data |-> chroma]
    ELSE IF serverFails \/ name \notin chromaExists
    THEN [exc |-> FALSE, ok |-> FALSE, exists |-> chromaExists,
          cache |-> collections_cache, data |-> chroma]
    ELSE [exc |-> FALSE, ok |-> TRUE, exists |-> chromaExists \ {name},
          cache |-> collections_cache \ {name},
          data |-> [chroma EXCEPT ![name] = << >>]]

\* get_collection_info(name).get("count", 0)
InfoCount(name) == IF name \in chromaExists THEN Count(name) ELSE 0

----------------------------------------------------------------------------
(* document_store.py: construction and initialize *)

Init ==
    /\ client = FALSE
    /\ collections_cache = {}
    /\ chromaExists = {}
    /\ chroma = [ k \in DOMAIN COLLECTION_CONFIGS |-> << >> ]
    /\ indexes = {}
    /\ retrievers = << >>
    /\ files = [ n \in {} |-> PlaceholderContent ]
    /\ tempFiles = {}
    /\ db = {}
    /\ nextId = 0
    /\ out = NoOut
    /\ pc = [ t \in Threads |-> "idle" ]
    /\ loc = [ t \in Threads |-> NoLoc ]
    /\ creations = [ k \in DOMAIN COLLECTION_CONFIGS |-> 0 ]
    /\ agents = EmptyAgents
    /\ document_store = "None"

\* The rebuild without the test `count > 0`.
RECURSIVE Rebuild_EmptyToo(_, _, _)
Rebuild_EmptyToo(i, rs, broken) ==
    IF i > Len(KeyOrder) THEN rs
    ELSE LET k == KeyOrder[i] IN
         IF InSeq(k, rs) \/ k \notin chromaExists' \/ k = broken
         THEN Rebuild_EmptyToo(i + 1, rs, broken)
         ELSE Rebuild_EmptyToo(i + 1, Append(rs, k), broken)

\* _rebuild_all_retrievers over the keys from position i on; `broken` is the
\* collection (if any) whose rebuild raises inside from_vector_store.
RECURSIVE Rebuild(_, _, _)
Rebuild(i, rs, broken) ==
    IF i > Len(KeyOrder) THEN rs
    ELSE LET k == KeyOrder[i] IN
         IF InSeq(k, rs) \/ k \notin chromaExists' \/ Count(k) = 0 \/ k = broken
         THEN Rebuild(i + 1, rs, broken)
         ELSE Rebuild(i + 1, Append(rs, k), broken)

\* initialize(): connect, create the collections, rebuild the retrievers.
Initialize(connectFails, uncreated, broken) ==
    /\ IF connectFails
       THEN /\ client' = FALSE
            /\ UNCHANGED <<collections_cache, chromaExists, indexes, retrievers>>
            /\ out' = [NoOut EXCEPT !.op = "initialize", !.ok = FALSE]
       ELSE /\ client' = TRUE
            /\ chromaExists' = chromaExists \cup (CollectionKeys \ uncreated)
            /\ collections_cache' = collections_cache \cup (CollectionKeys \ uncreated)
            /\ retrievers' = Rebuild(1, retrievers, broken)
            /\ indexes' = indexes \cup (SeqSet(retrievers') \ SeqSet(retrievers))
            /\ out' = [NoOut EXCEPT !.op = "initialize", !.ok = TRUE, !.injected = broken]
    /\ UNCHANGED <<chroma, files, tempFiles, db, nextId, pc, loc, creations, agents, document_store>>

\* The process ends and a new DocumentStore is constructed; what is on disk, in the
\* vector database and in the metadata store stays.
Restart ==
    /\ client' = FALSE
    /\ collections_cache' = {}
    /\ indexes' = {}
    /\ retrievers' = << >>
    /\ document_store' = "None"
    /\ out' = [NoOut EXCEPT !.op = "restart"]
    /\ UNCHANGED <<chromaExists, chroma, files, tempFiles, db, nextId, pc, loc, creations,
                   agents>>

----------------------------------------------------------------------------
(* document_store.py: ingest_single_document *)

\* What the environment can make fail during one ingest: the reader raises, the reader
\* returns no document, the write of the permanent file raises, the vector database
\* cannot be reached for the collection, the embedding or upsert raises.
\* "no_docstore" is no failure: the ingest goes through, and the new index keeps no
\* node in its docstore (the vector store holds the text of the nodes).
FailStages == {"none", "extract", "nodocs", "write", "collection", "index", "no_docstore"}

\* Which of document_path and document_content the caller gave.
Given(document_path, document_content) ==
    CASE document_path = NoneStr /\ document_content = NoneStr -> "neither"
      [] document_path = NoneStr -> "text"
      [] document_content = NoneStr -> "path"
      [] OTHER -> "both"

\* chroma_document_ids, as a count: index.insert(document) returns None, so an
\* existing index gives []; a new index gives the keys of its docstore.
ChromaDocumentIds(had_index, content, fail) ==
    IF had_index THEN 0
    ELSE IF fail = "no_docstore" THEN 0
    ELSE NumChunks(content)

\* len(cleaned_content.encode('utf-8')): the placeholder is made of 3-byte characters
Utf8Bytes(content) ==
    IF content.form = "placeholder" THEN 3 * PlaceholderChars
    ELSE NumChunks(content) * ChunkChars(content)

Unchanged(result) ==
    [ chromaExists |-> chromaExists, collections_cache |-> collections_cache, chroma |-> chroma,
      indexes |-> indexes, retrievers |-> retrievers, files |-> files, tempFiles |-> tempFiles,
      nextId |-> nextId + 1, created |-> FALSE, result |-> result ]

\* final_filename: renamed_filename, with ".txt" appended unless it ends with it
FinalFilename(renamed_filename) ==
    IF EndsWith(renamed_filename, ".txt") THEN renamed_filename
    ELSE renamed_filename \o ".txt"

\* ingest_single_document from the preprocessing result on: the permanent file, the
\* registry lookup, the collection (coll is what get_or_create_collection answered),
\* the index. given: which of the path and the text the caller gave.
StoreDocument(given, content, pre, final_filename, coll, llm_tag, fail) ==
    LET document_id == nextId + 1
        collection_type == pre.collection_type
        cleaned_content == pre.cleaned_content
        written == (final_filename :> cleaned_content) @@ files
        base == [NoOut EXCEPT !.op = "ingest", !.text = content, !.llm_tag = llm_tag,
                              !.injected = fail, !.given = given,
                              !.llm = IF pre.raised THEN "raised" ELSE pre.via]
        Failure(stage) == [base EXCEPT !.ok = FALSE, !.stage = stage]
        entry == Stored(document_id, cleaned_content, final_filename, SourceOf(pre.metadata))
    IN
    IF given = "neither"
    THEN [Unchanged(Failure("input")) EXCEPT !.nextId = nextId]
    ELSE IF fail = "extract" THEN Unchanged(Failure("extract"))
    ELSE IF fail = "nodocs" THEN Unchanged(Failure("nodocs"))
    ELSE IF pre.raised THEN Unchanged(Failure("classify"))
    ELSE IF fail = "write" THEN Unchanged(Failure("write"))
    ELSE IF ~HasConfig(collection_type)
    THEN [Unchanged(Failure("config")) EXCEPT !.files = written]
    ELSE IF coll.exc
    THEN [Unchanged(Failure("collection")) EXCEPT !.files = written]
    ELSE IF fail = "index"
    THEN [Unchanged(Failure("index")) EXCEPT
              !.files = written, !.chromaExists = coll.exists,
              !.collections_cache = coll.cache]
    ELSE [ chromaExists |-> coll.exists,
           collections_cache |-> coll.cache,
           chroma |-> [chroma EXCEPT ![collection_type] = Append(@, entry)],
           indexes |-> indexes \cup {collection_type},
           retrievers |-> IF collection_type \in indexes THEN retrievers
                          ELSE DictPut(retrievers, collection_type),
           files |-> written,
           tempFiles |-> tempFiles,
           nextId |-> nextId + 1,
           created |-> collection_type \notin indexes,
           result |-> [base EXCEPT !.ok = TRUE, !.collection_type = collection_type,
                                   !.content = cleaned_content,
                                   !.final_filename = final_filename,
                                   !.confidence = pre.confidence,
                                   !.file_size = Utf8Bytes(cleaned_content),
                                   !.had_index = collection_type \in indexes,
                                   !.chunk_ids =
                                       ChromaDocumentIds(collection_type \in indexes,
                                                         cleaned_content, fail)] ]

\* ingest_single_document from the call of process_document on
ClassifiedDocument(given, content, pre, llm_tag, fail) ==
    StoreDocument(given, content, pre, FinalFilename(pre.renamed_filename),
                  get_or_create_collection(pre.collection_type, fail = "collection"),
                  llm_tag, fail)

\* The `finally` without the unlink: the temporary file stays.
Unlink_Skipped(temp_files, temp_file_path) == temp_files

\* temp_file_path.unlink()
Unlink(temp_files, temp_file_path) == temp_files \ {temp_file_path}

\* The temporary file of a call that was given a text alone: written before the reader
\* runs, removed by the `finally` on every way out of the call.
Finally(r, fromContent, temp_file_path) ==
    IF fromContent
    THEN [r EXCEPT !.tempFiles = Unlink(tempFiles \cup {temp_file_path}, temp_file_path)]
    ELSE r

\* The state and the returned dict after ingest_single_document(document_path,
\* document_content). disk_text is the text of the file at document_path. A text
\* without a path goes through a temporary file, whose name the classifier sees.
ingest_single_document(document_path, document_content, disk_text, llm, fail) ==
    LET fromContent == document_path = NoneStr /\ document_content # NoneStr
        original_filename == IF fromContent THEN TempName(nextId + 1) ELSE document_path
        content == IF fromContent THEN document_content ELSE disk_text
    IN  Finally(ClassifiedDocument(Given(document_path, document_content), content,
                                   process_document(content, original_filename, llm, nextId + 1),
                                   llm.tag, fail),
                fromContent, TempName(nextId + 1))

Apply(r) ==
    /\ chromaExists' = r.chromaExists
    /\ collections_cache' = r.collections_cache
    /\ chroma' = r.chroma
    /\ indexes' = r.indexes
    /\ retrievers' = r.retrievers
    /\ files' = r.files
    /\ tempFiles' = r.tempFiles
    /\ nextId' = r.nextId

\* A caller of the DocumentStore API ingests a file or a text.
IngestSingleDocument(document_path, document_content, disk_text, llm, fail) ==
    /\ nextId < MaxDocs
    /\ LET r == ingest_single_document(document_path, document_content, disk_text, llm, fail)
       IN  Apply(r) /\ out' = r.result
    /\ UNCHANGED <<client, db, pc, loc, creations, agents, document_store>>

----------------------------------------------------------------------------
(* documents.py: POST /ingest with text content *)

\* DocumentStore._ingest_single_document(document, collection_type): the router calls
\* it, the class does not define it. It is taken to run the ingestion pipeline on the
\* document's text and to answer whether it succeeded.
_ingest_single_document(content, llm, fail) ==
    ingest_single_document(NoneStr, content, content, llm, fail)

Row(id, filename, collection_type) ==
    [ id |-> id, filename |-> filename, collection_type |-> collection_type ]

\* ingest_documents (text branch): ingest, then save the document to the metadata
\* store; a failure of that save is logged and the request still succeeds.
RouterIngest(content, llm, fail, dbFails) ==
    /\ nextId < MaxDocs
    /\ LET r == _ingest_single_document(content, llm, fail) IN
       /\ Apply(r)
       /\ IF ~r.result.ok
          THEN /\ db' = db
               /\ out' = [r.result EXCEPT !.op = "router_ingest"]
          ELSE /\ db' = IF dbFails THEN db
                        ELSE db \cup {Row(nextId + 1, r.result.final_filename,
                                          r.result.collection_type)}
               /\ out' = [r.result EXCEPT !.op = "router_ingest", !.ok = TRUE,
                                          !.db_failed = dbFails,
                                          !.file_kept = r.result.final_filename \in DOMAIN r.files]
    /\ UNCHANGED <<client, pc, loc, creations, agents, document_store>>

----------------------------------------------------------------------------
(* document_store.py: get_collection_stats and reset_collection *)

\* get_collection_stats: the document_count of each collection, or an error for it
\* when get_collection_info raises (no client).
Stats ==
    /\ out' = [NoOut EXCEPT !.op = "stats", !.ok = TRUE,
                            !.counts = [ k \in CollectionKeys |-> IF client THEN InfoCount(k) ELSE 0 ],
                            !.errors = IF client THEN {} ELSE CollectionKeys,
                            !.after = out.op, !.prev_ok = out.ok, !.key = out.key,
                            !.before = out.before]
    /\ UNCHANGED <<client, collections_cache, chromaExists, chroma, indexes, retrievers,
                   files, tempFiles, db, nextId, pc, loc, creations, agents, document_store>>

\* reset_collection for one key that forgets the retriever of the collection.
ResetOne_KeepsRetriever(collection_type, refused, recreateFails) ==
    LET d == delete_collection(collection_type, refused)
        result(ok) == [NoOut EXCEPT !.op = "reset", !.ok = ok, !.key = collection_type,
                          !.before = [ k \in CollectionKeys |-> InfoCount(k) ]]
    IN
    IF ~HasConfig(collection_type) \/ d.exc
    THEN /\ out' = result(FALSE)
         /\ UNCHANGED <<collections_cache, chromaExists, chroma, indexes, retrievers>>
    ELSE /\ chroma' = d.data
         /\ indexes' = indexes \ {collection_type}
         /\ retrievers' = retrievers
         /\ IF d.ok /\ ~recreateFails
            THEN /\ chromaExists' = d.exists \cup {collection_type}
                 /\ collections_cache' = d.cache \cup {collection_type}
            ELSE /\ chromaExists' = d.exists
                 /\ collections_cache' = d.cache
         /\ out' = result(d.ok /\ ~recreateFails)

\* reset_collection(collection_type) for one key. refused: the server refuses the
\* deletion; recreateFails: the server cannot be reached to create it again.
ResetOne(collection_type, refused, recreateFails) ==
    LET d == delete_collection(collection_type, refused)
        result(ok) == [NoOut EXCEPT !.op = "reset", !.ok = ok, !.key = collection_type,
                          !.before = [ k \in CollectionKeys |-> InfoCount(k) ]]
    IN
    IF ~HasConfig(collection_type) \/ d.exc
    THEN /\ out' = result(FALSE)
         /\ UNCHANGED <<collections_cache, chromaExists, chroma, indexes, retrievers>>
    ELSE /\ chroma' = d.data
         /\ indexes' = indexes \ {collection_type}
         /\ retrievers' = Remove(retrievers, collection_type)
         /\ IF d.ok /\ ~recreateFails
            THEN /\ chromaExists' = d.exists \cup {collection_type}
                 /\ collections_cache' = d.cache \cup {collection_type}
            ELSE /\ chromaExists' = d.exists
                 /\ collections_cache' = d.cache
         /\ out' = result(d.ok /\ ~recreateFails)

\* reset_collection() for all collections. refused: the collections whose deletion
\* the server refuses.
ResetAll(refused) ==
    LET deleted == IF client THEN (CollectionKeys \cap chromaExists) \ refused ELSE {}
    IN
    /\ chroma' = [ k \in DOMAIN chroma |-> IF k \in deleted THEN << >> ELSE chroma[k] ]
    /\ chromaExists' = chromaExists
    /\ collections_cache' = collections_cache \cup deleted
    /\ indexes' = {}
    /\ retrievers' = << >>
    /\ out' = [NoOut EXCEPT !.op = "reset", !.ok = deleted # {}, !.key = NoneStr,
                            !.before = [ k \in CollectionKeys |-> InfoCount(k) ]]

ResetCollection(collection_type, refused, recreateFails) ==
    /\ IF collection_type # NoneStr /\ collection_type # ""
       THEN ResetOne(collection_type, collection_type \in refused, recreateFails)
       ELSE ResetAll(refused)
    /\ UNCHANGED <<client, files, tempFiles, db, nextId, pc, loc, creations, agents, document_store>>

\* is_ready that looks at the indexes alone.
is_ready_IndexesOnly(unreachable) == indexes # {}

\* is_ready(): is_connected() (a client, and its heartbeat answers) and an index and
\* a retriever. unreachable: the server does not answer the heartbeat.
is_ready(unreachable) ==
    /\ client /\ ~unreachable
    /\ indexes # {}
    /\ Len(retrievers) > 0

IsReady(unreachable) ==
    /\ out' = [NoOut EXCEPT !.op = "is_ready", !.ok = is_ready(unreachable),
                            !.injected = IF unreachable THEN "unreachable" ELSE "none",
                            !.after = out.op, !.prev_ok = out.ok, !.key = out.key]
    /\ UNCHANGED <<client, collections_cache, chromaExists, chroma, indexes, retrievers,
                   files, tempFiles, db, nextId, pc, loc, creations, agents, document_store>>

----------------------------------------------------------------------------
(* document_store.py: search_documents and get_document_context *)

Take(seq, n) == SubSeq(seq, 1, Min(n, Len(seq)))

DocNodes(doc) ==
    [ pos \in 1..NumChunks(doc.content) |->
        [ content |-> doc.content, pos |-> pos, id |-> doc.id,
          file_name |-> doc.file_name, source |-> doc.source ] ]

RECURSIVE NodesOf(_)
NodesOf(docs) == IF Len(docs) = 0 THEN << >> ELSE DocNodes(docs[1]) \o NodesOf(Tail(docs))

\* The similarity the embedding model gives a query and a node, in tenths: a node made
\* from the query's text is nearer to it than any other node.
Similarity(query_text, node) ==
    IF Overlaps(node.content, query_text) THEN 9 - ((node.pos - 1) % 3)
    ELSE (node.id + 2 * node.pos) % 5

\* x goes behind every element whose score is at least its own (a stable descending sort)
RECURSIVE InsertByScore(_, _)
InsertByScore(x, sorted) ==
    IF Len(sorted) = 0 THEN << x >>
    ELSE IF sorted[1].score >= x.score THEN << sorted[1] >> \o InsertByScore(x, Tail(sorted))
    ELSE << x >> \o sorted

RECURSIVE SortDescending(_, _)
SortDescending(seq, acc) ==
    IF Len(seq) = 0 THEN acc ELSE SortDescending(Tail(seq), InsertByScore(seq[1], acc))

\* retriever.retrieve(query_text): the similarity_top_k nearest nodes, nearest first
Scored(nodes, query_text) ==
    [ i \in 1..Len(nodes) |->
        [ node |-> nodes[i], score |-> Similarity(query_text, nodes[i]) ] ]

Retrieve(collection_type, query_text) ==
    Take(SortDescending(Scored(NodesOf(chroma[collection_type]), query_text), << >>),
         get_retrieval_config(collection_type).similarity_top_k)

Max(a, b) == IF a >= b THEN a ELSE b

\* collection_top_k with max in the place of min
CollectionTopK_Max(top_k, collection_type) ==
    Max(top_k, get_retrieval_config(collection_type).similarity_top_k)

CollectionTopK(top_k, collection_type) ==
    Min(top_k, get_retrieval_config(collection_type).similarity_top_k)

\* The results of one collection: nodes[:collection_top_k], tagged and ranked
Tagged(nodes, collection_type) ==
    [ i \in 1..Len(nodes) |->
        [ rank |-> i, content |-> nodes[i].node.content,
          chars |-> ChunkChars(nodes[i].node.content), score |-> nodes[i].score,
          source |-> nodes[i].node.source, file_name |-> nodes[i].node.file_name,
          collection_type |-> collection_type, collection_rank |-> i,
          overall_rank |-> 0 ] ]

CollectionResults(collection_type, query_text, top_k) ==
    Tagged(Take(Retrieve(collection_type, query_text),
                CollectionTopK(top_k, collection_type)),
           collection_type)

\* The loop over collection_types from position i on; `degraded` is the collection
\* whose retriever raises. exc tells that the exception left the loop.
RECURSIVE Gather(_, _, _, _, _, _)
Gather(i, collection_types, query_text, top_k, degraded, all_results) ==
    IF i > Len(collection_types) THEN [exc |-> FALSE, all_results |-> all_results]
    ELSE LET collection_type == collection_types[i] IN
         IF ~InSeq(collection_type, retrievers)
         THEN Gather(i + 1, collection_types, query_text, top_k, degraded, all_results)
         ELSE IF collection_type = degraded
         THEN [exc |-> TRUE, all_results |-> all_results]
         ELSE Gather(i + 1, collection_types, query_text, top_k, degraded,
                     all_results \o CollectionResults(collection_type, query_text, top_k))

\* all_results left in the order the collections gave them
SortByScore_Unsorted(all_results) == all_results

\* all_results.sort(key=score, reverse=True)
SortByScore(all_results) == SortDescending(all_results, << >>)

\* search_documents(query_text, collection_types, top_k); given = FALSE is
\* collection_types = None.
\* The re-ranking that copies each result's rank within its collection.
Ranked_CollectionRank(final_results) ==
    [ i \in 1..Len(final_results) |->
        [final_results[i] EXCEPT !.overall_rank = final_results[i].collection_rank] ]

\* result['overall_rank'] = i + 1
Ranked(final_results) ==
    [ i \in 1..Len(final_results) |-> [final_results[i] EXCEPT !.overall_rank = i] ]

\* What search_documents does with what the loop gathered: sort, cut, rank; or the
\* empty list when the loop raised.
Merged(g, limit) ==
    IF g.exc THEN [exc |-> TRUE, results |-> NoResults]
    ELSE [exc |-> FALSE, results |-> Ranked(Take(SortByScore(g.all_results), limit))]

SearchIn(targets, query_text, top_k, degraded) ==
    Merged(Gather(1, targets, query_text, top_k, degraded, NoResults),
           top_k * Len(targets))

\* The default targets taken from the registry instead of the retrievers.
Targets_Registry(given, collection_types) ==
    IF given THEN collection_types ELSE KeyOrder

\* if collection_types is None: collection_types = list(self.retrievers.keys())
Targets(given, collection_types) ==
    IF given THEN collection_types ELSE retrievers

search_documents(query_text, given, collection_types, top_k, degraded) ==
    IF Len(retrievers) = 0 THEN [exc |-> FALSE, results |-> NoResults]
    ELSE SearchIn(Targets(given, collection_types), query_text, top_k, degraded)

Searched(r, query_text, given, collection_types, top_k, degraded) ==
       out' = [NoOut EXCEPT !.op = "search", !.ok = TRUE, !.query = query_text,
                            !.colls_given = given, !.colls = collection_types,
                            !.top_k = top_k, !.results = r.results,
                            !.targets = IF Len(retrievers) = 0 THEN << >>
                                        ELSE Targets(given, collection_types),
                            !.raised_in = IF r.exc THEN degraded ELSE "",
                            !.after = IF out.op = "ingest" THEN "ingest" ELSE "other",
                            !.prev_ok = out.op = "ingest" /\ out.ok,
                            !.text = IF out.op = "ingest" THEN out.text ELSE "",
                            !.collection_type =
                                IF out.op = "ingest" THEN out.collection_type ELSE "",
                            !.llm = IF out.op = "ingest" THEN out.llm ELSE ""]

Search(query_text, given, collection_types, top_k, degraded) ==
    /\ Searched(search_documents(query_text, given, collection_types, top_k, degraded),
                query_text, given, collection_types, top_k, degraded)
    /\ UNCHANGED <<client, collections_cache, chromaExists, chroma, indexes, retrievers,
                   files, tempFiles, db, nextId, pc, loc, creations, agents, document_store>>

CONTEXT_TOP_K == 10
DEFAULT_MAX_TOKENS == 2000
CharsPerToken == 4
ScoreChars == 5
\* len("\n---\n")
DelimiterChars == 5

\* len of f"[Collection: {collection_type} | Source: {source} | Score: {score:.3f}]"
HeaderChars(part) ==
    Len("[Collection: ") + Len(part.collection_type) + Len(" | Source: ")
        + Len(part.source) + Len(" | Score: ") + ScoreChars + Len("]")

\* len of f"{context_header}\n{content}\n"
PartChars(part) == HeaderChars(part) + 1 + part.chars + 1

RECURSIVE SumPartChars(_)
SumPartChars(parts) ==
    IF Len(parts) = 0 THEN 0 ELSE PartChars(parts[1]) + SumPartChars(Tail(parts))

\* len("\n---\n".join(context_parts))
ContextChars(parts) ==
    IF Len(parts) = 0 THEN 0 ELSE SumPartChars(parts) + DelimiterChars * (Len(parts) - 1)

\* The loop of get_document_context from result i on
RECURSIVE Fill(_, _, _, _, _)
Fill(i, results, max_tokens, current_length, context_parts) ==
    IF i > Len(results) THEN context_parts
    ELSE LET estimated_tokens == results[i].chars \div CharsPerToken IN
         IF current_length + estimated_tokens > max_tokens THEN context_parts
         ELSE Fill(i + 1, results, max_tokens, current_length + estimated_tokens,
                   Append(context_parts,
                          [ collection_type |-> results[i].collection_type,
                            source |-> results[i].source, score |-> results[i].score,
                            chars |-> results[i].chars ]))

ContextOf(r, max_tokens) ==
    [ results |-> r.results, exc |-> r.exc,
      parts |-> Fill(1, r.results, max_tokens, 0, NoParts) ]

get_document_context(query_text, given, collection_types, max_tokens, degraded) ==
    ContextOf(search_documents(query_text, given, collection_types, CONTEXT_TOP_K, degraded),
              max_tokens)

ContextBuilt(c, query_text, given, collection_types, max_tokens, degraded) ==
           out' = [NoOut EXCEPT !.op = "context", !.ok = TRUE, !.query = query_text,
                                !.colls_given = given, !.colls = collection_types,
                                !.top_k = CONTEXT_TOP_K, !.results = c.results,
                                !.raised_in = IF c.exc THEN degraded ELSE "",
                                !.max_tokens = max_tokens, !.parts = c.parts]

GetDocumentContext(query_text, given, collection_types, max_tokens, degraded) ==
    /\ ContextBuilt(get_document_context(query_text, given, collection_types, max_tokens,
                                         degraded),
                    query_text, given, collection_types, max_tokens, degraded)
    /\ UNCHANGED <<client, collections_cache, chromaExists, chroma, indexes, retrievers,
                   files, tempFiles, db, nextId, pc, loc, creations, agents, document_store>>

----------------------------------------------------------------------------
(* document_store.py: two ingest_single_document calls at the same time *)

\* A call runs up to the test `collection_type in self.indexes`: classification, the
\* permanent file, the collection. The temporary file stays until the call returns.
BeginWith(t, r, ct) ==
    /\ files' = r.files
    /\ chromaExists' = r.chromaExists
    /\ collections_cache' = r.collections_cache
    /\ nextId' = r.nextId
    /\ IF r.result.ok
       THEN /\ pc' = [pc EXCEPT ![t] = "check"]
            /\ loc' = [loc EXCEPT ![t] =
                         [ collection_type |-> ct,
                           entry |-> r.chroma[ct][Len(r.chroma[ct])],
                           had_index |-> ct \in indexes,
                           temp |-> TempName(nextId + 1) ]]
            /\ tempFiles' = tempFiles \cup {TempName(nextId + 1)}
            /\ out' = out
       ELSE /\ UNCHANGED <<pc, loc, tempFiles>>
            /\ out' = r.result

Begin(t, content, llm) ==
    /\ pc[t] = "idle"
    /\ nextId < MaxDocs
    /\ BeginWith(t, ingest_single_document(NoneStr, content, content, llm, "none"),
                 ingest_single_document(NoneStr, content, content, llm, "none").result.collection_type)
    /\ UNCHANGED <<client, chroma, indexes, retrievers, db, creations, agents, document_store>>

\* if collection_type in self.indexes
CheckIndex(t) ==
    /\ pc[t] = "check"
    /\ pc' = [pc EXCEPT ![t] = IF loc[t].collection_type \in indexes THEN "insert" ELSE "build"]
    /\ UNCHANGED <<client, collections_cache, chromaExists, chroma, indexes, retrievers,
                   files, tempFiles, db, nextId, out, loc, creations, agents, document_store>>

\* self.indexes[collection_type].insert(document)
Insert(t) ==
    /\ pc[t] = "insert"
    /\ chroma' = [chroma EXCEPT ![loc[t].collection_type] = Append(@, loc[t].entry)]
    /\ pc' = [pc EXCEPT ![t] = "done"]
    /\ UNCHANGED <<client, collections_cache, chromaExists, indexes, retrievers,
                   files, tempFiles, db, nextId, out, loc, creations, agents, document_store>>

\* index = VectorStoreIndex.from_documents([document], ...): a new index object, and
\* the document's nodes are embedded and written to the collection.
FromDocuments(t) ==
    /\ pc[t] = "build"
    /\ chroma' = [chroma EXCEPT ![loc[t].collection_type] = Append(@, loc[t].entry)]
    /\ creations' = [creations EXCEPT ![loc[t].collection_type] = @ + 1]
    /\ UNCHANGED <<agents, document_store>>
    /\ pc' = [pc EXCEPT ![t] = "assign_index"]
    /\ UNCHANGED <<client, collections_cache, chromaExists, indexes, retrievers,
                   files, tempFiles, db, nextId, out, loc>>

\* self.indexes[collection_type] = index
AssignIndex(t) ==
    /\ pc[t] = "assign_index"
    /\ indexes' = indexes \cup {loc[t].collection_type}
    /\ pc' = [pc EXCEPT ![t] = "assign_retriever"]
    /\ UNCHANGED <<client, collections_cache, chromaExists, chroma, retrievers,
                   files, tempFiles, db, nextId, out, loc, creations, agents, document_store>>

\* self.retrievers[collection_type] = index.as_retriever(...)
AssignRetriever(t) ==
    /\ pc[t] = "assign_retriever"
    /\ retrievers' = DictPut(retrievers, loc[t].collection_type)
    /\ pc' = [pc EXCEPT ![t] = "done"]
    /\ UNCHANGED <<client, collections_cache, chromaExists, chroma, indexes,
                   files, tempFiles, db, nextId, out, loc, creations, agents, document_store>>

\* return {...}, after the `finally` removed the temporary file
Return(t) ==
    /\ pc[t] = "done"
    /\ tempFiles' = tempFiles \ {loc[t].temp}
    /\ out' = [NoOut EXCEPT !.op = "ingest", !.ok = TRUE,
                            !.collection_type = loc[t].collection_type,
                            !.content = loc[t].entry.content,
                            !.final_filename = loc[t].entry.file_name]
    /\ pc' = [pc EXCEPT ![t] = "idle"]
    /\ loc' = [loc EXCEPT ![t] = NoLoc]
    /\ UNCHANGED <<client, collections_cache, chromaExists, chroma, indexes, retrievers,
                   files, db, nextId, creations, agents, document_store>>

----------------------------------------------------------------------------
(* The store and its callers *)

\* The language-model behaviours that lead to different stored documents.
SomeBehaviours ==
    { b \in LLMBehaviours : b.tag \in {"raise", "valid"} }

\* The calls: a path alone, a text alone, neither, both.
IngestCalls ==
    { <<"zhangsan_jianli.txt", NoneStr, "short">>, <<"report.txt", NoneStr, "long">>,
      <<NoneStr, "short", "short">>, <<NoneStr, NoneStr, "short">>,
      <<"report.txt", "short", "long">> }

\* What can fail while the router's text branch runs the pipeline.
RouterFailStages == {"none", "write", "index"}

ResetKeys == {NoneStr, COLLECTION_RESUMES, COLLECTION_PROJECTS_EXPERIENCE, UnknownKey}

\* The ingest calls made: every call with every behaviour of the language model when
\* nothing else fails, and every failure of the environment on a file and on a text.
IngestCases ==
    { <<call, llm, "none">> : call \in IngestCalls, llm \in LLMBehaviours }
    \cup { <<call, llm, fail>> :
             call \in { <<"zhangsan_jianli.txt", NoneStr, "short">>, <<NoneStr, "short", "short">> },
             llm \in SomeBehaviours, fail \in FailStages }

RouterCases ==
    { <<content, llm, "none", dbFails>> :
          content \in Texts, llm \in LLMBehaviours, dbFails \in BOOLEAN }
    \cup { <<"short", llm, fail, dbFails>> :
             llm \in SomeBehaviours, fail \in RouterFailStages, dbFails \in BOOLEAN }

\* Ingestion with every failure the environment can cause.
Next ==
    \/ \E connectFails \in BOOLEAN, broken \in {"", COLLECTION_RESUMES} :
            Initialize(connectFails, {}, broken)
    \/ Restart
    \/ \E c \in IngestCases : IngestSingleDocument(c[1][1], c[1][2], c[1][3], c[2], c[3])
    \/ \E c \in RouterCases : RouterIngest(c[1], c[2], c[3], c[4])

Spec == Init /\ [][Next]_vars

SomeCalls ==
    { <<p, NoneStr, t>> : p \in PathNames, t \in Texts } \cup { <<NoneStr, t, t>> : t \in Texts }

\* Ingestion, reset and statistics.
NextReset ==
    \/ \E connectFails \in BOOLEAN : Initialize(connectFails, {}, "")
    \/ \E call \in SomeCalls, llm \in SomeBehaviours :
            IngestSingleDocument(call[1], call[2], call[3], llm, "none")
    \/ \E k \in ResetKeys, refused \in {{}, {COLLECTION_RESUMES}}, recreateFails \in BOOLEAN :
            ResetCollection(k, refused, recreateFails)
    \/ Stats

SpecReset == Init /\ [][NextReset]_vars

\* The documents searched: a file the fallback files under resumes, and a pasted text.
RetrievalCalls ==
    { <<"zhangsan_jianli.txt", NoneStr, "short">>, <<NoneStr, "long", "long">> }

RetrievalBehaviours ==
    { b \in SomeBehaviours : b.obj.renamed_filename # "report.txt" }

\* collection_types: None (given = FALSE), one key, two keys, a key no retriever has.
\* A list names a collection at most once.
SearchTargets ==
    { <<FALSE, << >> >>,
      <<TRUE, << COLLECTION_RESUMES >> >>,
      <<TRUE, << COLLECTION_CODE_ANALYSIS >> >>,
      <<TRUE, << COLLECTION_RESUMES, COLLECTION_CODE_ANALYSIS >> >>,
      <<TRUE, << COLLECTION_CODE_ANALYSIS, COLLECTION_RESUMES >> >>,
      <<TRUE, << UnknownKey, COLLECTION_RESUMES >> >> }

\* top_k is a count: zero, small, or as large as the context builder asks for.
TopKChoices == (0..MaxTopK) \cup {CONTEXT_TOP_K}
MaxTokenChoices == {0, 5, 25, DEFAULT_MAX_TOKENS}

\* Ingestion and retrieval.
NextRetrieval ==
    \/ Initialize(FALSE, {}, "")
    \/ \E call \in RetrievalCalls, llm \in RetrievalBehaviours :
            IngestSingleDocument(call[1], call[2], call[3], llm, "none")
    \/ \E q \in Texts, t \in SearchTargets, top_k \in TopKChoices,
          degraded \in {"", COLLECTION_RESUMES} :
            Search(q, t[1], t[2], top_k, degraded)
    \/ \E q \in Texts, t \in SearchTargets, max_tokens \in MaxTokenChoices :
            GetDocumentContext(q, t[1], t[2], max_tokens, "")

SpecRetrieval == Init /\ [][NextRetrieval]_vars

\* Ingest calls on several threads, each step of one call at a time.
NextConcurrent ==
    \/ \E connectFails \in BOOLEAN : Initialize(connectFails, {}, "")
    \/ \E t \in Threads, content \in Texts, llm \in RetrievalBehaviours :
            Begin(t, content, llm)
    \/ \E t \in Threads : CheckIndex(t)
    \/ \E t \in Threads : Insert(t)
    \/ \E t \in Threads : FromDocuments(t)
    \/ \E t \in Threads : AssignIndex(t)
    \/ \E t \in Threads : AssignRetriever(t)
    \/ \E t \in Threads : Return(t)

SpecConcurrent == Init /\ [][NextConcurrent]_vars

\* The file names the classifier is given: with a resume keyword in either case, with
\* a keyword of another group, with none, and no name at all.
ResumeNames ==
    { "zhangsan_jianli.txt", "My_RESUME.pdf", "CV_2024.docx", "recv_log.txt",
      "resume_project.txt" }
PlainNames == { "report.txt", "notes.md", "" }
ClassifyNames == ResumeNames \cup PlainNames \cup { "project_plan.md", "JD_backend.txt" }

\* process_document(document_content, filename) called on its own.
Classified(pre, filename, llm_tag) ==
    out' = [NoOut EXCEPT !.op = "classify", !.ok = ~pre.raised, !.filename = filename,
                         !.collection_type = pre.collection_type,
                         !.confidence = pre.confidence, !.llm = pre.via,
                         !.llm_tag = llm_tag, !.final_filename = pre.renamed_filename,
                         !.content = pre.cleaned_content]

Classify(filename, llm) ==
    /\ Classified(process_document("short", filename, llm, 0), filename, llm.tag)
    /\ UNCHANGED <<client, collections_cache, chromaExists, chroma, indexes, retrievers,
                   files, tempFiles, db, nextId, pc, loc, creations, agents, document_store>>

\* A string of n characters.
Str(n) == SubSeq(LongSource, 1, n)

\* Metadata values around the caps: strings of 0, 30, 31 and 52 characters, lists of
\* 0, 2, 5 and 6 items, with and without an item of more than 20 characters.
StrChoices == { StrVal(Str(0)), StrVal(Str(30)), StrVal(Str(31)), StrVal(LongSource) }
ListChoices ==
    { ListVal(<< >>),
      ListVal(<< StrVal("python"), StrVal("docker") >>),
      ListVal(<< StrVal(Str(25)), OtherVal >>),
      ListVal([ i \in 1..5 |-> StrVal(DigitStr(i)) ]),
      ListVal([ i \in 1..6 |-> StrVal(DigitStr(i)) ]),
      ListVal([ i \in 1..6 |-> IF i = 2 THEN StrVal(Str(21)) ELSE StrVal(DigitStr(i)) ]) }

MetadataInputs ==
    { [ key \in {"source", "keywords"} |-> IF key = "source" THEN v ELSE l ] :
          v \in StrChoices \cup {OtherVal}, l \in ListChoices }
    \cup { EmptyMetadata }

\* _truncate_metadata(metadata, max_field_length) called on its own.
TruncateMetadata(metadata, max_field_length) ==
    /\ out' = [NoOut EXCEPT !.op = "truncate", !.ok = TRUE, !.metadata = metadata,
                            !.max_field_length = max_field_length,
                            !.truncated = _truncate_metadata(metadata, max_field_length)]
    /\ UNCHANGED <<client, collections_cache, chromaExists, chroma, indexes, retrievers,
                   files, tempFiles, db, nextId, pc, loc, creations, agents, document_store>>

\* The classifier and the metadata truncation, each on every input.
NextClassify ==
    \/ \E filename \in ClassifyNames, llm \in LLMBehaviours : Classify(filename, llm)
    \/ \E metadata \in MetadataInputs,
          max_field_length \in {TruncateDefaultLength, MAX_METADATA_FIELD_LENGTH} :
            TruncateMetadata(metadata, max_field_length)

SpecClassify == Init /\ [][NextClassify]_vars

\* get_document_store: initialize() is called once, on the store just constructed.
Startup(connectFails, broken) ==
    /\ out.op \in {"none", "restart"}
    /\ Initialize(connectFails, {}, broken)

\* The life of the store: start, ingest, readiness, search without keys, reset, and
\* the end of the process.
NextLifecycle ==
    \/ \E connectFails \in BOOLEAN, broken \in {"", COLLECTION_RESUMES} :
            Startup(connectFails, broken)
    \/ Restart
    \/ \E call \in RetrievalCalls, llm \in RetrievalBehaviours, fail \in {"none", "index"} :
            IngestSingleDocument(call[1], call[2], call[3], llm, fail)
    \/ \E llm \in RetrievalBehaviours, dbFails \in BOOLEAN :
            RouterIngest("short", llm, "none", dbFails)
    \/ \E k \in ResetKeys, refused \in {{}, {COLLECTION_RESUMES}}, recreateFails \in BOOLEAN :
            ResetCollection(k, refused, recreateFails)
    \/ \E unreachable \in BOOLEAN : IsReady(unreachable)
    \/ Search("short", FALSE, << >>, MaxTopK, "")

SpecLifecycle == Init /\ [][NextLifecycle]_vars

----------------------------------------------------------------------------
(* crew/agent_manager.py *)

\* The roles of PROFESSIONAL_AGENT_CONFIGS (Chinese in the source: no upper case and
\* no space) and the roles callers create agents with.
ProfessionalRoles == { "qiuzhizhe_beijing_fenxishi", "mianshi_tiku_zhuanjia" }
CallerRoles == { "Test Agent", "test agent", "Researcher" }

\* str.replace(" ", "_")
RECURSIVE Underscored(_)
Underscored(s) ==
    IF Len(s) = 0 THEN ""
    ELSE (IF SubSeq(s, 1, 1) = " " THEN "_" ELSE SubSeq(s, 1, 1))
             \o Underscored(SubSeq(s, 2, Len(s)))

\* agent_key = agent_config.role.lower().replace(" ", "_")
AgentKey(role) == Underscored(Lower(role))

AgentKeys == { AgentKey(r) : r \in ProfessionalRoles \cup CallerRoles } \cup { "non_existent" }

\* self.agents[agent_key] = agent
PutAgent(d, role) ==
    [ k \in DOMAIN d \cup {AgentKey(role)} |-> IF k = AgentKey(role) THEN role ELSE d[k] ]

\* AgentManager(auto_initialize): with auto_initialize (the default) the constructor
\* creates the professional agents; `failing` are those whose Agent(...) raises.
NewAgentManager(auto_initialize, failing) ==
    /\ agents' = IF auto_initialize
                  THEN [ k \in { AgentKey(r) : r \in ProfessionalRoles \ failing } |-> k ]
                  ELSE EmptyAgents
    /\ out' = [NoOut EXCEPT !.op = "new_manager", !.ok = TRUE,
                            !.injected = IF auto_initialize THEN "auto" ELSE "manual"]
    /\ UNCHANGED <<client, collections_cache, chromaExists, chroma, indexes, retrievers,
                   files, tempFiles, db, nextId, pc, loc, creations, document_store>>

\* create_agent(agent_config): raises when Agent(...) raises, else stores the agent
\* and its config under the key.
CreateAgent(role, raises) ==
    /\ agents' = IF raises THEN agents ELSE PutAgent(agents, role)
    /\ out' = [NoOut EXCEPT !.op = "create_agent", !.ok = ~raises, !.role = role]
    /\ UNCHANGED <<client, collections_cache, chromaExists, chroma, indexes, retrievers,
                   files, tempFiles, db, nextId, pc, loc, creations, document_store>>

\* remove_agent(agent_key)
RemoveAgent(agent_key) ==
    /\ agents' = [ k \in DOMAIN agents \ {agent_key} |-> agents[k] ]
    /\ out' = [NoOut EXCEPT !.op = "remove_agent", !.ok = agent_key \in DOMAIN agents,
                            !.key = agent_key]
    /\ UNCHANGED <<client, collections_cache, chromaExists, chroma, indexes, retrievers,
                   files, tempFiles, db, nextId, pc, loc, creations, document_store>>

\* get_agent(agent_key): self.agents.get(agent_key)
GetAgent(agent_key) ==
    /\ out' = [NoOut EXCEPT !.op = "get_agent", !.ok = TRUE, !.key = agent_key,
                            !.agent = IF agent_key \in DOMAIN agents THEN agents[agent_key]
                                      ELSE NoneStr]
    /\ UNCHANGED <<client, collections_cache, chromaExists, chroma, indexes, retrievers,
                   files, tempFiles, db, nextId, pc, loc, creations, agents, document_store>>

\* list_agents(): list(self.agents.keys())
ListAgents ==
    /\ out' = [NoOut EXCEPT !.op = "list_agents", !.ok = TRUE, !.listed = DOMAIN agents]
    /\ UNCHANGED <<client, collections_cache, chromaExists, chroma, indexes, retrievers,
                   files, tempFiles, db, nextId, pc, loc, creations, agents, document_store>>

NextAgents ==
    \/ \E auto_initialize \in BOOLEAN, failing \in {{}, ProfessionalRoles} :
            NewAgentManager(auto_initialize, failing)
    \/ \E role \in CallerRoles, raises \in BOOLEAN : CreateAgent(role, raises)
    \/ \E agent_key \in AgentKeys : RemoveAgent(agent_key)
    \/ \E agent_key \in AgentKeys : GetAgent(agent_key)
    \/ ListAgents

SpecAgents == Init /\ [][NextAgents]_vars

----------------------------------------------------------------------------
\* The calls of the store's API by what they are given: a path, a text, neither,
\* both, an empty text, the path of an empty file.
InputCalls ==
    { <<"report.txt", NoneStr, "long">>, <<NoneStr, "short", "short">>,
      <<NoneStr, NoneStr, "short">>, <<"report.txt", "short", "long">>,
      <<NoneStr, "", "">>, <<"report.txt", NoneStr, "">> }

InputCases ==
    { <<call, llm, fail>> : call \in InputCalls, llm \in SomeBehaviours, fail \in FailStages }

\* The store's API called with every kind of input, under every failure.
NextInputs ==
    \/ \E connectFails \in BOOLEAN : Initialize(connectFails, {}, "")
    \/ \E c \in InputCases : IngestSingleDocument(c[1][1], c[1][2], c[1][3], c[2], c[3])

SpecInputs == Init /\ [][NextInputs]_vars

----------------------------------------------------------------------------
(* Properties *)

\* C1: a successful ingest returns a collection key that is one of the keys of the
\* collection registry, for every text and every behaviour of the language model.
C1_CollectionKeyInRegistry ==
    (out.op \in {"ingest", "router_ingest"} /\ out.ok)
        => out.collection_type \in CollectionKeys

\* C1 happens: the language model named a key outside the registry and the ingest
\* succeeded.
C1_Witness ==
    out.op = "ingest" /\ out.ok /\ out.llm_tag = "unknown_key"

C9_RollbackOnCatalogFailure ==
    (out.op = "router_ingest" /\ out.db_failed)
        => (~out.ok /\ ~out.file_kept)

\* C8: reset_collection(K) for a registered key K, when it reports success, followed
\* by get_collection_stats shows zero documents for K and for every other registered
\* key the count it had before the reset.
C8_ResetThenStats ==
    (out.op = "stats" /\ out.after = "reset" /\ out.prev_ok /\ out.key \in CollectionKeys)
        => /\ out.errors = {}
           /\ out.counts[out.key] = 0
           /\ \A k \in CollectionKeys \ {out.key} : out.counts[k] = out.before[k]

\* C8 happens: the collection that was reset held documents, and so does another one.
C8_Witness ==
    /\ out.op = "stats" /\ out.after = "reset" /\ out.prev_ok
    /\ out.key \in CollectionKeys
    /\ out.before[out.key] > 0
    /\ \E k \in CollectionKeys \ {out.key} : out.counts[k] > 0

\* The collections a search went to: collection_types, or every retriever's key.
TargetsOf(o) == IF o.colls_given THEN o.colls ELSE retrievers

\* The number of results tagged with a collection
Tagged_Count(results, c) ==
    Cardinality({ i \in 1..Len(results) : results[i].collection_type = c })

\* C3: after a successful ingest of a text T that was placed in collection C, the
\* search for T in C returns a result of C whose text overlaps T, whichever way the
\* document was classified.
C3_RoundTrip ==
    ( /\ out.op = "search" /\ out.after = "ingest" /\ out.prev_ok
      /\ out.query = out.text
      /\ out.colls_given /\ out.colls = << out.collection_type >>
      /\ out.top_k >= 1 /\ out.raised_in = "" )
        => \E i \in 1..Len(out.results) :
              /\ out.results[i].collection_type = out.collection_type
              /\ Overlaps(out.results[i].content, out.text)

\* C4: when the retriever of one targeted collection raises, every other targeted
\* collection that has a retriever and documents still has results in the answer.
C4_FailuresIsolated ==
    (out.op = "search" /\ out.raised_in # "" /\ out.top_k >= 1)
        => \A c \in SeqSet(TargetsOf(out)) \ {out.raised_in} :
              (InSeq(c, retrievers) /\ Count(c) > 0) => Tagged_Count(out.results, c) > 0

\* C5: the list search returns is sorted by score, highest first, across the merged
\* results of all collections.
C5_SortedByScore ==
    out.op = "search" =>
        \A i \in 1..(Len(out.results) - 1) :
            out.results[i].score >= out.results[i + 1].score

\* C5 happens: two collections gave results, and the results of one of them stand
\* between results of the other.
C5_Witness ==
    /\ out.op = "search"
    /\ \E i, j, k \in 1..Len(out.results) :
          /\ i < j /\ j < k
          /\ out.results[i].collection_type = out.results[k].collection_type
          /\ out.results[i].collection_type # out.results[j].collection_type
          /\ out.results[i].score > out.results[k].score

\* C6: the number of results tagged with a collection is at most the smaller of top_k
\* and the collection's similarity_top_k.
C6_CollectionCeiling ==
    out.op = "search" =>
        \A c \in CollectionKeys :
            Tagged_Count(out.results, c)
                <= Min(out.top_k, COLLECTION_CONFIGS[c].similarity_top_k)

\* C6 happens: the caller asked for more than the collection's ceiling, the collection
\* holds more nodes than its ceiling, and the answer has exactly the ceiling.
C6_Witness ==
    /\ out.op = "search"
    /\ \E c \in CollectionKeys :
          /\ COLLECTION_CONFIGS[c].similarity_top_k < out.top_k
          /\ Count(c) > COLLECTION_CONFIGS[c].similarity_top_k
          /\ Tagged_Count(out.results, c) = COLLECTION_CONFIGS[c].similarity_top_k

\* The estimated token cost of the largest block of the context, header and
\* delimiter included.
LargestBlockTokens(parts) ==
    LET costs == { (PartChars(parts[i]) + DelimiterChars) \div CharsPerToken :
                       i \in 1..Len(parts) }
    IN  IF costs = {} THEN 0 ELSE CHOOSE m \in costs : \A n \in costs : n <= m

\* C7: the estimated token count (characters divided by 4) of the context string,
\* headers and delimiters included, exceeds max_tokens by no more than the estimated
\* cost of one block.
C7_ContextWithinBudget ==
    out.op = "context" =>
        (ContextChars(out.parts) \div CharsPerToken) - out.max_tokens
            <= LargestBlockTokens(out.parts)

\* C10: when two ingest calls that both started on a collection without an index have
\* returned, the index of that collection was created exactly once and the collection
\* holds the documents of both.
C10_IndexCreatedOnce ==
    \A a \in Threads : \A b \in Threads \ {a} :
        ( /\ pc[a] = "done" /\ pc[b] = "done"
          /\ loc[a].collection_type = loc[b].collection_type
          /\ ~loc[a].had_index /\ ~loc[b].had_index )
            => /\ creations[loc[a].collection_type] = 1
               /\ InSeq(loc[a].entry, chroma[loc[a].collection_type])
               /\ InSeq(loc[b].entry, chroma[loc[a].collection_type])

\* C11: an ingest called with neither a path nor a text, or with both, fails with the
\* invalid-input error and persists nothing: no chunk, no file, no index, no retriever,
\* no row of the metadata store.
C11_ExactlyOneInput ==
    [][ (out'.op = "ingest" /\ out'.given \in {"neither", "both"})
            => /\ ~out'.ok
               /\ out'.stage = "input"
               /\ chroma' = chroma /\ files' = files /\ db' = db
               /\ indexes' = indexes /\ retrievers' = retrievers ]_vars

\* C12: the ingest of a document whose text is empty returns a failure.
C12_EmptyTextFails ==
    (out.op = "ingest" /\ out.given \in {"path", "text"} /\ out.text = "")
        => ~out.ok

\* C13: once an ingest that was given a text alone has returned, with success or with
\* a failure at any stage, the temporary file it wrote for the text is gone.
C13_TempFileRemoved ==
    (out.op = "ingest" /\ out.given = "text") => tempFiles = {}

\* C13 happens: an ingest of a text failed late, at the index step, after its
\* temporary file and its permanent file were written.
C13_Witness ==
    /\ out.op = "ingest" /\ out.given = "text"
    /\ ~out.ok /\ out.stage = "index"

\* C17: a successful ingest returns the UTF-8 byte length of the cleaned text as
\* file_size and at least one chunk id, exactly one for a text shorter than the chunk
\* size, with and without an index already there for the collection.
C17_SizeAndChunkIds ==
    (out.op = "ingest" /\ out.ok /\ out.text # "")
        => /\ out.file_size =
                 (IF out.content.form = "placeholder" THEN 27
                  ELSE IF out.content.src = "short" THEN 50 ELSE 1200)
           /\ out.chunk_ids >= 1
           /\ (out.content.form = "placeholder" \/ out.content.src = "short")
                 => out.chunk_ids = 1

\* C14: when the language model cannot be reached or its answer is rejected, a file
\* name that contains "resume", "cv" or "jianli" in any case is classified as resumes
\* with a confidence of at most 0.3, and a name with no keyword as projects_experience
\* with the same confidence.
C14_FallbackByFilename ==
    (out.op = "classify" /\ out.llm = "fallback")
        => /\ out.confidence >= 0 /\ out.confidence <= 3
           /\ out.filename \in ResumeNames => out.collection_type = "resumes"
           /\ out.filename \in PlainNames => out.collection_type = "projects_experience"

\* C14 happens: the language model named a key outside the registry, its answer was
\* rejected, and the fallback met an upper-case "RESUME" in the file name.
C14_Witness ==
    /\ out.op = "classify" /\ out.llm = "fallback"
    /\ out.llm_tag = "unknown_key" /\ out.filename = "My_RESUME.pdf"

\* C15 as stated: a string longer than the cap becomes its prefix of cap length, a list
\* longer than the item cap becomes its leading items, and a value within these two
\* caps comes back unchanged.
C15_TruncatedToCaps ==
    out.op = "truncate" =>
        /\ DOMAIN out.truncated = DOMAIN out.metadata
        /\ \A key \in DOMAIN out.metadata :
              LET v == out.metadata[key]
                  w == out.truncated[key]
              IN  /\ (v.t = "str" /\ Len(v.s) > out.max_field_length)
                        => w = StrVal(SubSeq(v.s, 1, out.max_field_length))
                  /\ (v.t = "list" /\ Len(v.l) > TruncateListItems)
                        => w = ListVal(SubSeq(v.l, 1, TruncateListItems))
                  /\ (v.t = "str" /\ Len(v.s) <= out.max_field_length) => w = v
                  /\ (v.t = "list" /\ Len(v.l) <= TruncateListItems) => w = v
                  /\ v.t = "other" => w = v

\* Item w is item v, cut to the per-item cap when it is a longer string.
ItemCapped(v, w) ==
    IF v.t = "str" /\ Len(v.s) > TruncateItemLength
    THEN w.t = "str" /\ Len(w.s) = TruncateItemLength /\ w.s = SubSeq(v.s, 1, Len(w.s))
    ELSE w = v

\* C15, amended: the keys are kept; a string longer than max_field_length becomes its
\* prefix of that length; a list keeps its first five items at most, each string item
\* of more than twenty characters cut to its first twenty; every other value, and
\* every value within these three caps, comes back unchanged.
C15_TruncatedToThreeCaps ==
    out.op = "truncate" =>
        /\ DOMAIN out.truncated = DOMAIN out.metadata
        /\ \A key \in DOMAIN out.metadata :
              LET v == out.metadata[key]
                  w == out.truncated[key]
              IN  /\ (v.t = "str" /\ Len(v.s) > out.max_field_length)
                        => w = StrVal(SubSeq(v.s, 1, out.max_field_length))
                  /\ (v.t = "str" /\ Len(v.s) <= out.max_field_length) => w = v
                  /\ v.t = "list"
                        => /\ w.t = "list"
                           /\ Len(w.l) = Min(Len(v.l), TruncateListItems)
                           /\ \A i \in 1..Len(w.l) : ItemCapped(v.l[i], w.l[i])
                  /\ v.t = "other" => w = v

\* C15 happens: a map with a string over the cap and a list of six items, one of
\* them over the per-item cap, was truncated.
C15_Witness ==
    /\ out.op = "truncate"
    /\ "keywords" \in DOMAIN out.metadata /\ "source" \in DOMAIN out.metadata
    /\ out.metadata["source"].t = "str"
    /\ Len(out.metadata["source"].s) > out.max_field_length
    /\ out.metadata["keywords"].t = "list"
    /\ Len(out.metadata["keywords"].l) > TruncateListItems
    /\ \E i \in 1..TruncateListItems :
           Len(out.metadata["keywords"].l[i].s) > TruncateItemLength

\* C16: is_ready answers true only when the vector database is reachable and a
\* collection has a retriever; reset_collection() of all collections leaves no
\* retriever, and only a successful ingest (or the rebuild of initialize) brings one
\* back, so is_ready is false in between.
C16_ReadyOnlyWithRetriever ==
    /\ [](out.op = "is_ready" =>
             /\ out.ok => (client /\ out.injected # "unreachable" /\ Len(retrievers) > 0)
             /\ (out.after = "reset" /\ out.key = NoneStr) => ~out.ok)
    /\ [][ /\ (out'.op = "reset" /\ out'.key = NoneStr) => Len(retrievers') = 0
           /\ (Len(retrievers) = 0 /\ Len(retrievers') > 0)
                 => \/ out'.op \in {"ingest", "router_ingest"} /\ out'.ok
                    \/ out'.op = "initialize"
           /\ (out'.op = "is_ready" /\ Len(retrievers) = 0) => ~out'.ok ]_vars

\* C16 happens: is_ready was asked right after a reset of all collections that
\* reported success.
C16_Witness ==
    /\ out.op = "is_ready" /\ ~out.ok
    /\ out.after = "reset" /\ out.key = NoneStr /\ out.prev_ok
    /\ client /\ out.injected = "none"

\* C18: after a reset of collection K that reports success no row of the metadata
\* store has K as its collection, and after a reset of all collections no row is left.
C18_ResetCascades ==
    (out.op = "reset" /\ out.ok)
        => IF out.key = NoneStr THEN db = {}
           ELSE \A row \in db : row.collection_type # out.key

\* C19: a search that is given a key outside the registry, next to a key that has a
\* retriever, reports an error and returns no result for the remaining keys.
C19_UnknownKeySurfaced ==
    ( /\ out.op \in {"search", "context"} /\ out.colls_given
      /\ \E i \in 1..Len(out.colls) : out.colls[i] \notin CollectionKeys
      /\ \E i \in 1..Len(out.colls) : InSeq(out.colls[i], retrievers) )
        => (~out.ok /\ Len(out.results) = 0)

\* C20: a search without collection keys targets exactly the collections that have a
\* retriever. A collection has one from a successful ingest into it, or from the
\* rebuild of initialize, until it is reset or the process ends; a reset of it, or of
\* all collections, takes it away until the next successful ingest into it.
C20_DefaultTargets ==
    /\ []((out.op = "search" /\ ~out.colls_given) => out.targets = retrievers)
    /\ [][ /\ (out'.op \in {"ingest", "router_ingest"} /\ out'.ok)
                 => InSeq(out'.collection_type, retrievers')
           /\ (out'.op = "reset" /\ out'.key \in CollectionKeys)
                 => ~InSeq(out'.key, retrievers')
           /\ (out'.op = "reset" /\ out'.key = NoneStr) => Len(retrievers') = 0
           /\ \A c \in CollectionKeys :
                 /\ (InSeq(c, retrievers) /\ ~InSeq(c, retrievers'))
                       => out'.op \in {"reset", "restart"}
                 /\ (~InSeq(c, retrievers) /\ InSeq(c, retrievers'))
                       => \/ /\ out'.op \in {"ingest", "router_ingest"} /\ out'.ok
                              /\ out'.collection_type = c
                          \/ out'.op = "initialize" ]_vars

\* C20 happens: a search without keys found one retriever, of a collection that was
\* ingested into, while the collection reset before it has none.
C20_Witness ==
    /\ out.op = "search" /\ ~out.colls_given
    /\ Len(out.targets) = 1 /\ Len(out.results) > 0
    /\ \E c \in CollectionKeys : c \in chromaExists /\ Count(c) = 0 /\ ~InSeq(c, retrievers)
    /\ nextId = MaxDocs

\* The registered collections that hold at least one stored chunk.
WithChunks == { k \in CollectionKeys : k \in chromaExists /\ Count(k) > 0 }

Searched_Collections(o) == { c \in SeqSet(o.targets) : InSeq(c, retrievers) }

\* C22: search returns at most top_k results for each collection it searched, the
\* overall_rank values of the list are 1, 2, ..., n in list order, and each result
\* carries the rank it had among the results of its own collection.
C22_CapAndRanks ==
    out.op = "search" =>
        /\ Len(out.results) <= out.top_k * Cardinality(Searched_Collections(out))
        /\ \A i \in 1..Len(out.results) :
              LET x == out.results[i]
                  nodes == Retrieve(x.collection_type, out.query)
              IN  /\ x.overall_rank = i
                  /\ x.collection_rank \in 1..Len(nodes)
                  /\ x.rank = x.collection_rank
                  /\ nodes[x.collection_rank].score = x.score
                  /\ nodes[x.collection_rank].node.content = x.content
        /\ \A i, j \in 1..Len(out.results) :
              (i # j /\ out.results[i].collection_type = out.results[j].collection_type)
                  => out.results[i].collection_rank # out.results[j].collection_rank

\* C22 happens: a search over two collections returned as many results as the cap
\* allows, the first result of each collection among them.
C22_Witness ==
    /\ out.op = "search" /\ out.top_k >= 1
    /\ Cardinality(Searched_Collections(out)) = 2
    /\ Len(out.results) = out.top_k * 2
    /\ out.results[1].collection_type # out.results[2].collection_type
    /\ out.results[2].collection_rank = 1

\* C23: every block of the context carries, in ranked order, the collection of its
\* result, the file name under which ingest stored the document the chunk came from,
\* and the score of the result.
C23_HeaderNamesSourceFile ==
    out.op = "context" =>
        /\ Len(out.parts) <= Len(out.results)
        /\ \A i \in 1..Len(out.parts) :
              /\ out.parts[i].collection_type = out.results[i].collection_type
              /\ out.parts[i].score = out.results[i].score
              /\ out.parts[i].source = out.results[i].file_name

\* C24: a newly constructed AgentManager lists no agents; create_agent adds the key
\* of the role (lower case, spaces as underscores) and remove_agent takes a key away,
\* so list_agents returns the keys of the agents created and not removed; get_agent
\* returns the agent of such a key and None for any other key.
C24_AgentsListed ==
    /\ [](out.op = "new_manager" => DOMAIN agents = {})
    /\ [](out.op = "list_agents" => out.listed = DOMAIN agents)
    /\ [](out.op = "get_agent" =>
             IF out.key \in DOMAIN agents THEN out.agent = agents[out.key]
             ELSE out.agent = NoneStr)
    /\ [][ /\ (out'.op = "create_agent" /\ out'.ok)
                 => \E k \in {"test_agent", "researcher"} :
                       /\ (out'.role = "Researcher") <=> (k = "researcher")
                       /\ DOMAIN agents' = DOMAIN agents \cup {k}
                       /\ agents'[k] = out'.role
           /\ out'.op = "remove_agent"
                 => DOMAIN agents' = DOMAIN agents \ {out'.key} ]_vars

----------------------------------------------------------------------------
(* gateway/routers/documents.py: get_document_store *)

\* get_document_store(): when the module's global is None a DocumentStore is
\* constructed and assigned to the global, and then initialized; HTTP 500 when
\* initialize() returns False. Otherwise the global is returned as it is.
\* No await inside initialize() suspends (connect, the collection calls and the
\* rebuild are synchronous), so one call is one step of the event loop.
GetDocumentStore(connectFails) ==
    /\ IF document_store = "None"
       THEN /\ document_store' = "store"
            /\ IF connectFails
               THEN /\ client' = FALSE
                    /\ UNCHANGED <<collections_cache, chromaExists, indexes, retrievers>>
                    /\ out' = [NoOut EXCEPT !.op = "get_document_store", !.ok = FALSE,
                                            !.stage = "initialize"]
               ELSE /\ client' = TRUE
                    /\ chromaExists' = chromaExists \cup CollectionKeys
                    /\ collections_cache' = collections_cache \cup CollectionKeys
                    /\ retrievers' = Rebuild(1, retrievers, "")
                    /\ indexes' = indexes \cup (SeqSet(retrievers') \ SeqSet(retrievers))
                    /\ out' = [NoOut EXCEPT !.op = "get_document_store", !.ok = TRUE,
                                            !.stage = "initialize", !.connected = TRUE]
       ELSE /\ out' = [NoOut EXCEPT !.op = "get_document_store", !.ok = TRUE,
                                    !.connected = client]
            /\ UNCHANGED <<client, collections_cache, chromaExists, indexes, retrievers,
                           document_store>>
    /\ UNCHANGED <<chroma, files, tempFiles, db, nextId, pc, loc, creations, agents>>

\* The requests of the documents router: each obtains the store through
\* get_document_store and, when it was handed one, calls it.
NextGateway ==
    \/ \E connectFails \in BOOLEAN : GetDocumentStore(connectFails)
    \/ Restart
    \/ \E call \in SomeCalls, llm \in SomeBehaviours :
            /\ document_store = "store"
            /\ IngestSingleDocument(call[1], call[2], call[3], llm, "none")
    \/ \E k \in ResetKeys :
            /\ document_store = "store"
            /\ ResetCollection(k, {}, FALSE)
    \/ document_store = "store" /\ Stats

SpecGateway == Init /\ [][NextGateway]_vars

----------------------------------------------------------------------------
(* C25 *)

\* C25: in every state between calls, whatever initialize, ingest and reset calls were
\* made and whichever of them failed part-way, the collections that have an index are
\* the collections that have a retriever.
C25_IndexesMatchRetrievers == indexes = SeqSet(retrievers)

\* A reset of one collection has failed while another collection stays indexed.
C25_Witness ==
    /\ out.op = "reset" /\ ~out.ok /\ out.key = COLLECTION_RESUMES
    /\ indexes # {} /\ COLLECTION_RESUMES \notin indexes

----------------------------------------------------------------------------
(* C28 *)

\* C28: a reset of one key that returns false because the key is not registered or
\* because the vector store refused the deletion leaves the index cache, the retriever
\* cache and the vector store's data as they were before the call.
C28_FailedResetChangesNothing ==
    [][ \A k \in ResetKeys \ {NoneStr} :
            (ResetCollection(k, {k}, FALSE) /\ ~out'.ok)
                => /\ indexes' = indexes
                   /\ retrievers' = retrievers
                   /\ chroma' = chroma
                   /\ chromaExists' = chromaExists ]_vars

----------------------------------------------------------------------------
(* C26 *)

\* C26: a request that get_document_store hands a store to gets a store whose
\* initialize() has succeeded, whether it arrives while the first initialization is
\* under way or after an initialization that failed.
C26_HandedStoreInitialized ==
    (out.op = "get_document_store" /\ out.ok) => client

----------------------------------------------------------------------------
(* C27 *)

\* C27: when the classification fell back to the heuristic, the text that a successful
\* ingest wrote to the documents directory and put into the vector store is the text
\* extracted from the document.
C27_FallbackKeepsText ==
    (out.op = "ingest" /\ out.ok /\ out.llm = "fallback") =>
        /\ out.final_filename \in DOMAIN files
        /\ files[out.final_filename].form # "placeholder"
        /\ files[out.final_filename].src = out.text
        /\ chroma[out.collection_type] # << >>
        /\ LET last == chroma[out.collection_type][Len(chroma[out.collection_type])]
           IN  last.content.form # "placeholder" /\ last.content.src = out.text

----------------------------------------------------------------------------
(* C29 *)

\* C29: an ingest that fails after the permanent file was written (at the registry
\* lookup, at the creation of the collection, at the chunking or the upsert) leaves no
\* file in the documents directory that was not there before the call.
C29_FailedIngestLeavesNoFile ==
    [][ (out'.op = "ingest" /\ ~out'.ok /\ out'.stage \in {"config", "collection", "index"})
            => DOMAIN files' \subseteq DOMAIN files ]_vars

----------------------------------------------------------------------------
(* C30 *)

\* C30: a successful ingest never writes over the file of a document ingested earlier
\* from a different text, whatever filename the classifier chose for the two. (An
\* earlier document stored through the fallback keeps no trace of its text and is
\* left out of the comparison.)
C30_NoFileOverwritten ==
    [][ (out'.op = "ingest" /\ out'.ok)
            => \A k \in DOMAIN chroma : \A i \in 1..Len(chroma[k]) :
                   (/\ chroma[k][i].file_name = out'.final_filename
                    /\ chroma[k][i].content.form # "placeholder")
                       => chroma[k][i].content.src = out'.text ]_vars

====
